---- MODULE Spec2Model ----
(***************************************************************************)
(* AskDash backend: the connection registry (app/core/database.py), the    *)
(* NL-to-SQL response repair pipeline (app/services/ai_service.py) and the *)
(* query/history/export/schema/connection routes (app/api/routes).         *)
(*                                                                         *)
(* Texts (SQL statements, model replies) are sequences of items, each one   *)
(* character or a named run of characters (see Chars); strip, split, join, *)
(* upper and startswith are computed character by character.               *)
(* Every route handler is an async def without an await: it runs to        *)
(* completion on the event loop, so each handler is one atomic action.     *)
(***************************************************************************)
EXTENDS Integers, Sequences, FiniteSets, TLC

VARIABLES
    connections,    \* ConnectionManager.connections: connection id -> object id (0: absent)
    objs,           \* the DatabaseConnection objects ever registered (object id = index)
    dbUp,           \* whether the database server behind the good descriptor answers
    query_history,  \* queries.query_history: query id -> QueryHistory record
    nextQid,        \* the next uuid4 (ids are never drawn twice)
    clock,          \* the latest reading of datetime.now()
    last,           \* the response of the most recent handler, with what it did
    pc,             \* position of the pure-function specifications: "in" / "done"
    input,          \* argument of the pure-function specifications
    output          \* result of the pure-function specifications

vars == <<connections, objs, dbUp, query_history, nextQid, clock, last, pc, input, output>>

sysVars == <<connections, objs, dbUp, query_history, nextQid, clock, last>>

--------------------------------------------------------------------------
(* Character-level text functions, as Python's str methods compute them.   *)

LowerLetters == <<"a","b","c","d","e","f","g","h","i","j","k","l","m",
                  "n","o","p","q","r","s","t","u","v","w","x","y","z">>

UpperLetters == <<"A","B","C","D","E","F","G","H","I","J","K","L","M",
                  "N","O","P","Q","R","S","T","U","V","W","X","Y","Z">>

Digits == {"0","1","2","3","4","5","6","7","8","9"}

\* str.isspace for the characters of the model
IsSpace(c) == c \in {" ", "\n", "\t"}

\* str.upper on one character
UpperChar(c) ==
    IF \E i \in 1..26 : LowerLetters[i] = c
    THEN UpperLetters[CHOOSE i \in 1..26 : LowerLetters[i] = c]
    ELSE c

\* str.upper
Upper(s) == [i \in 1..Len(s) |-> UpperChar(s[i])]

RECURSIVE LStrip(_)
LStrip(s) == IF s # <<>> /\ IsSpace(Head(s)) THEN LStrip(Tail(s)) ELSE s

RECURSIVE RStrip(_)
RStrip(s) ==
    IF s # <<>> /\ IsSpace(s[Len(s)]) THEN RStrip(SubSeq(s, 1, Len(s) - 1)) ELSE s

\* str.strip()
Strip(s) == RStrip(LStrip(s))

\* the length of the leading run of non-whitespace characters
RECURSIVE WordLen(_)
WordLen(s) == IF s = <<>> \/ IsSpace(Head(s)) THEN 0 ELSE 1 + WordLen(Tail(s))

\* str.split(): the maximal runs of non-whitespace characters, in order
RECURSIVE Split(_)
Split(s) ==
    LET t == LStrip(s)
        n == WordLen(t)
    IN  IF t = <<>> THEN <<>>
        ELSE <<SubSeq(t, 1, n)>> \o Split(SubSeq(t, n + 1, Len(t)))

\* sep.join(parts)
RECURSIVE Join(_, _)
Join(parts, sep) ==
    IF parts = <<>> THEN <<>>
    ELSE IF Len(parts) = 1 THEN parts[1]
    ELSE parts[1] \o sep \o Join(Tail(parts), sep)

\* str.startswith
StartsWith(s, p) == Len(s) >= Len(p) /\ SubSeq(s, 1, Len(p)) = p

\* concatenation of a sequence of texts
RECURSIVE Flatten(_)
Flatten(ss) == IF ss = <<>> THEN <<>> ELSE Head(ss) \o Flatten(Tail(ss))

SELECT == <<"S","E","L","E","C","T">>

--------------------------------------------------------------------------
(* Texts.  A text is a sequence of items; an item is one character or a    *)
(* named chunk that stands for a fixed run of characters:                  *)
(*   "<select>" "<delete>"   a line of plain SQL, a SELECT and a DELETE    *)
(*   "<select-1>"            the probe statement SELECT 1                  *)
(*   "<word>"                a word of prose                               *)
(*   "<sql>" "<sql-delete>"  the JSON member "sql" with its comma, carrying *)
(*                           the SELECT and the DELETE statement           *)
(*   "<explanation>"         the member "explanation"                      *)
(*   "<hint>" "<hint-other>" the member "visualization_hint", carrying     *)
(*                           bar_chart and a label outside the closed set  *)
(*   "<confidence>"          the member "confidence": 0.95                 *)
(*   "<key>"                 a key with its colon, to be followed by a value *)
(*   "<number>"              a JSON number                                 *)
(*   "<fence-json>" "<fence>" the code-fence markers: three backquotes     *)
(*                           with and without the word json                *)
(* Braces, "#", newline and blank are characters.                          *)

FenceOpen == "<fence-json>"

FenceClose == "<fence>"

\* the characters of a chunk ("BQ" stands for one backquote character); an
\* item that is no chunk is one character
Chars(c) ==
    CASE c = "<select>" -> <<"S","E","L","E","C","T"," ","a"," ","F","R","O","M"," ","t">>
      [] c = "<select-1>" -> <<"S","E","L","E","C","T"," ","1">>
      [] c = "<delete>" -> <<"D","E","L","E","T","E"," ","F","R","O","M"," ","t">>
      [] c = "<word>" -> <<"S","u","r","e">>
      [] c = "<sql>" -> <<"\"","s","q","l","\"",":","\"","S","E","L","E","C","T"," ","a","\"",",">>
      [] c = "<sql-delete>" -> <<"\"","s","q","l","\"",":","\"","D","E","L","E","T","E","\"",",">>
      [] c = "<explanation>" -> <<"\"","e","x","p","l","\"",":","\"","e","\"",",">>
      [] c = "<hint>" -> <<"\"","v","i","z","\"",":","\"","b","a","r","\"",",">>
      [] c = "<hint-other>" -> <<"\"","v","i","z","\"",":","\"","s","c","a","t","\"",",">>
      [] c = "<confidence>" -> <<"\"","c","o","n","f","\"",":","0",".","9","5">>
      [] c = "<number>" -> <<"1">>
      [] c = "<key>" -> <<"\"","m","e","t","a","\"",":">>
      [] c = FenceOpen -> <<"BQ","BQ","BQ","j","s","o","n">>
      [] c = FenceClose -> <<"BQ","BQ","BQ">>
      [] OTHER -> <<c>>

\* the characters of a text given in chunks
Explode(text) == Flatten([i \in 1..Len(text) |-> Chars(text[i])])

--------------------------------------------------------------------------
(* DatabaseConnection.execute_query: the textual gate (database.py 63-65)  *)

\* query_cleaned = ' '.join(query.strip().split()).upper()
QueryCleanedNoUpper(query) == Join(Split(Strip(Explode(query))), <<" ">>)

QueryCleaned(query) == Upper(Join(Split(Strip(Explode(query))), <<" ">>))

\* a gate that forgets the case folding
GateNoUpper(query) == StartsWith(QueryCleanedNoUpper(query), SELECT)

\* the statement passes query_cleaned.startswith('SELECT')
GatePasses(query) == StartsWith(QueryCleaned(query), SELECT)

\* One cell of a result row: the column name (its characters) and the Python
\* type of the value.
Cell(c, k) == [col |-> c, kind |-> k]

\* The result sets the database may answer with: data as execute_query
\* returns it, a list of rows, each row the cells of dict(zip(columns, row)).
ColCount == <<"c","o","u","n","t">>

ResultSets == { <<>>, << <<Cell(ColCount, "int")>> >> }

\* What the database does with a statement it receives: an error (syntax
\* error, refused multi-statement payload, ...) or a result set.
DbAnswers ==
    {[err |-> TRUE, rows |-> <<>>]} \cup {[err |-> FALSE, rows |-> r] : r \in ResultSets}

Failure(msg, sentStmts) == [ok |-> FALSE, error |-> msg, sent |-> sentStmts, data |-> <<>>]

\* execute_query without the gate
ExecuteQueryNoGate(o, query, up, ans) ==
    IF o.engine # "open" THEN Failure("NoEngine", <<>>)
    ELSE IF ~up THEN Failure("OperationalError", <<>>)
    ELSE IF ans.err THEN Failure("DatabaseError", <<query>>)
    ELSE [ok |-> TRUE, error |-> "", sent |-> <<query>>, data |-> ans.rows]

\* DatabaseConnection.execute_query(query) on connection object o, with the
\* server up or not and ans what the server answers if the statement
\* reaches it.  sent is what conn.execute handed to the database.  Every
\* failure leaves as Exception("Query execution failed: ...").
ExecuteQuery(o, query, up, ans) ==
    IF ~GatePasses(query) THEN Failure("OnlySelect", <<>>)
    ELSE IF o.engine # "open" THEN Failure("NoEngine", <<>>)
    ELSE IF ~up THEN Failure("OperationalError", <<>>)
    ELSE IF ans.err THEN Failure("DatabaseError", <<query>>)
    ELSE [ok |-> TRUE, error |-> "", sent |-> <<query>>, data |-> ans.rows]

--------------------------------------------------------------------------
(* AIQueryService.generate_sql: parsing the model's reply (ai_service.py   *)
(* 110-165), a text of the items above.                                    *)

MemberChunks == {"<sql>", "<sql-delete>", "<explanation>", "<hint>", "<hint-other>", "<confidence>"}

KeyOf(m) ==
    CASE m \in {"<sql>", "<sql-delete>"} -> "sql"
      [] m = "<explanation>" -> "explanation"
      [] m \in {"<hint>", "<hint-other>"} -> "visualization_hint"
      [] m = "<confidence>" -> "confidence"
      [] OTHER -> "meta"

\* the value a member carries
ValueOf(m) ==
    CASE m = "<sql>" -> <<"<select>">>
      [] m = "<sql-delete>" -> <<"<delete>">>
      [] m = "<explanation>" -> <<"<word>">>
      [] m = "<hint>" -> "bar_chart"
      [] m = "<hint-other>" -> "scatter"
      [] OTHER -> "-"

ModelConfidence == 95

DefaultConfidence == 80

FallbackConfidence == 70

FallbackExplanation == <<"Generated SQL query from natural language">>

\* lines 115-118: remove the code block markers
StripFences(content) ==
    LET a == IF content # <<>> /\ Head(content) = FenceOpen THEN Tail(content) ELSE content
    IN  IF a # <<>> /\ a[Len(a)] = FenceClose THEN SubSeq(a, 1, Len(a) - 1) ELSE a

\* re.search with the non-greedy pattern brace-anything-brace: from the first "{" to the
\* first "}" after it; <<>> when there is no match
JsonMatch(content) ==
    LET opens == {i \in 1..Len(content) : content[i] = "{"}
    IN  IF opens = {} THEN <<>>
        ELSE LET i == CHOOSE x \in opens : \A y \in opens : x <= y
                 closes == {j \in (i + 1)..Len(content) : content[j] = "}"}
             IN  IF closes = {} THEN <<>>
                 ELSE SubSeq(content, i, CHOOSE x \in closes : \A y \in closes : x <= y)

NoParse == [ok |-> FALSE, kind |-> "none", members |-> <<>>, rest |-> <<>>]

\* json's decoder on chunks: a value is a number or an object; an object is
\* "{", members, "}"; a member is a member chunk or "<key>" followed by a value;
\* whitespace may stand between chunks.
RECURSIVE ParseValue(_)
RECURSIVE ParseMembers(_, _)
ParseValue(ts) ==
    LET t == LStrip(ts)
    IN  IF t = <<>> THEN NoParse
        ELSE IF Head(t) = "<number>"
             THEN [ok |-> TRUE, kind |-> "number", members |-> <<>>, rest |-> Tail(t)]
        ELSE IF Head(t) = "{" THEN ParseMembers(Tail(t), <<>>)
        ELSE NoParse

ParseMembers(ts, ms) ==
    LET t == LStrip(ts)
    IN  IF t = <<>> THEN NoParse
        ELSE IF Head(t) = "}"
             THEN [ok |-> TRUE, kind |-> "object", members |-> ms, rest |-> Tail(t)]
        ELSE IF Head(t) \in MemberChunks THEN ParseMembers(Tail(t), Append(ms, Head(t)))
        ELSE IF Head(t) = "<key>"
             THEN LET v == ParseValue(Tail(t))
                  IN  IF v.ok THEN ParseMembers(v.rest, Append(ms, "<key>")) ELSE NoParse
        ELSE NoParse

\* json.loads(text): the whole text must be one value
JsonLoads(text) ==
    LET v == ParseValue(text)
    IN  IF v.ok /\ LStrip(v.rest) = <<>> THEN [v EXCEPT !.rest = <<>>] ELSE NoParse

\* the keys of a parsed object
Keys(parsed) == {KeyOf(parsed.members[i]) : i \in 1..Len(parsed.members)}

\* result[key]: the last member with that key wins
Lookup(parsed, key) ==
    LET at == {i \in 1..Len(parsed.members) : KeyOf(parsed.members[i]) = key}
    IN  ValueOf(parsed.members[CHOOSE i \in at : \A j \in at : i >= j])

RequiredKeys == {"sql", "explanation", "visualization_hint"}

\* content.split('\n')
RECURSIVE SplitLines(_)
SplitLines(content) ==
    LET nls == {i \in 1..Len(content) : content[i] = "\n"}
    IN  IF nls = {} THEN <<content>>
        ELSE LET i == CHOOSE x \in nls : \A y \in nls : x <= y
             IN  <<SubSeq(content, 1, i - 1)>>
                 \o SplitLines(SubSeq(content, i + 1, Len(content)))

\* a filter that keeps the comment lines
KeepLineWithComments(line) == Strip(line) # <<>>

\* line.strip() and not line.strip().startswith('#')
KeepLine(line) == Strip(line) # <<>> /\ Head(Strip(line)) # "#"

\* [line for line in lines if KeepLine(line)]
RECURSIVE KeptLines(_)
KeptLines(lines) ==
    IF lines = <<>> THEN <<>>
    ELSE (IF KeepLine(Head(lines)) THEN <<Head(lines)>> ELSE <<>>) \o KeptLines(Tail(lines))

\* lines 145-146: the heuristic SQL extraction
FallbackSql(content) == Join(KeptLines(SplitLines(content)), <<" ">>)

GenError(msg, st) ==
    [status |-> "error", error |-> msg, stages |-> st, sql |-> <<>>,
     explanation |-> <<>>, visualization_hint |-> "-", confidence |-> 0]

\* lines 131-140: validation of the parsed result and the default confidence
Validate(parsed, st) ==
    IF parsed.kind # "object" THEN GenError("TypeError", st)
    ELSE IF ~(RequiredKeys \subseteq Keys(parsed)) THEN GenError("MissingFields", st)
    ELSE [status |-> "ok", error |-> "", stages |-> st,
          sql |-> Lookup(parsed, "sql"),
          explanation |-> Lookup(parsed, "explanation"),
          visualization_hint |-> Lookup(parsed, "visualization_hint"),
          confidence |-> IF "confidence" \in Keys(parsed) THEN ModelConfidence
                         ELSE DefaultConfidence]

\* lines 142-153: the JSONDecodeError handler
Fallback(content, st) ==
    [status |-> "ok", error |-> "", stages |-> Append(st, "heuristic"),
     sql |-> FallbackSql(content),
     explanation |-> FallbackExplanation,
     visualization_hint |-> "table",
     confidence |-> FallbackConfidence]

\* lines 110-165 of generate_sql on the completion's text
ParseReply(reply) ==
    LET content == StripFences(Strip(reply))
        span == JsonMatch(content)
    IN  IF span # <<>>
        THEN LET r == JsonLoads(span)
             IN  IF r.ok THEN Validate(r, <<"span">>) ELSE Fallback(content, <<"span">>)
        ELSE LET r == JsonLoads(Strip(content))
             IN  IF r.ok THEN Validate(r, <<"whole">>) ELSE Fallback(content, <<"whole">>)

\* What the chat-completion call does: it raises (the provider is
\* unreachable or times out, or the model is not loaded) or it returns text.
Completion(e, t) == [err |-> e, text |-> t]

\* generate_sql(natural_query, schema_info), given what the completion call
\* does.  Lines 155-165 re-raise every failure as an Exception whose message
\* depends on the original one.
GenerateSql(completion) ==
    IF completion.err = "connection" THEN GenError("ProviderUnreachable", <<>>)
    ELSE IF completion.err = "model" THEN GenError("ModelNotFound", <<>>)
    ELSE ParseReply(completion.text)

--------------------------------------------------------------------------
(* The initial state of the service, and the idle values of the variables  *)
(* the pure-function specifications use.                                   *)

ConnIds == {"c1", "c2"}

\* the shape of every handler's response, with what the handler did:
\*   status, detail   the HTTP status code and the detail message
\*   cid, qid         the connection id and the history id it was given
\*   absent           whether an id it was given or followed is absent
\*   sent             the statements handed to the database, in order, each
\*                    with the connection object that sent it
\*   ai               whether generate_sql was called
\*   newQid           the id of the history entry it recorded (0: none)
\*   tried            the statement it passed to execute_query, if any
\*   fetched          the rows execute_query returned to it, if it returned
\*   rows             the number of rows in the body (-1: no row data)
\*   body             what else the body carries
Resp(op, status, detail, cid, qid, absent, sent, ai, newQid, rows, body) ==
    [op |-> op, status |-> status, detail |-> detail, cid |-> cid, qid |-> qid,
     absent |-> absent, sent |-> sent, ai |-> ai, newQid |-> newQid, tried |-> <<>>,
     fetched |-> <<>>, limit |-> 0, hint |-> "-",
     rows |-> rows, body |-> body]

NoResponse == Resp("none", 0, "", "", 0, FALSE, <<>>, FALSE, 0, -1, <<>>)

NoOutput == [op |-> "none"]

InitSys ==
    /\ connections = [c \in ConnIds |-> 0]
    /\ objs = <<>>
    /\ dbUp = TRUE
    /\ query_history = <<>>
    /\ nextQid = 1
    /\ clock = 0
    /\ last = NoResponse

IdlePure == pc = "idle" /\ input = <<>> /\ output = NoOutput

--------------------------------------------------------------------------
(* Specification SpecGate: execute_query applied to bounded statements.    *)

MaxPieces == 4

\* the fragments statements are composed of
GatePieces ==
    { <<" ">>, <<"\n">>, <<"\t">>,
      <<"s","e","l","e","c","t">>,
      <<"S","E","L","E","C","T">>,
      <<"D","E","L","E","T","E">>,
      <<"X">>,
      <<" ","*"," ","f","r","o","m"," ","t">>,
      <<"1",";"," ","D","R","O","P"," ","T","A","B","L","E"," ","t">>,
      <<" ","F","R","O","M"," ","t">> }

GateInputs ==
    { Flatten(ps) : ps \in UNION { [1..n -> GatePieces] : n \in 0..MaxPieces } }

\* a connected DatabaseConnection (after a successful connect())
ConnectedObj == [db_type |-> "sqlite", target |-> "db", engine |-> "open", ready |-> TRUE]

InitGate == InitSys /\ pc = "in" /\ input \in GateInputs /\ output = NoOutput

\* connection.execute_query(input) on a connected connection, server up
ExecuteQueryStep ==
    /\ pc = "in"
    /\ \E ans \in DbAnswers : output' = ExecuteQuery(ConnectedObj, input, TRUE, ans)
    /\ pc' = "done"
    /\ UNCHANGED <<input, connections, objs, dbUp, query_history, nextQid, clock, last>>

NextGate == ExecuteQueryStep

SpecGate == InitGate /\ [][NextGate]_vars

\* the statement, after its leading whitespace, starts with the six
\* characters s-e-l-e-c-t in any case
PrefixIsSelect(q) ==
    LET t == LStrip(q)
    IN  Len(t) >= 6 /\ \A i \in 1..6 : UpperChar(t[i]) = SELECT[i]

IsWordChar(c) ==
    \/ \E i \in 1..26 : c = LowerLetters[i] \/ c = UpperLetters[i]
    \/ c \in Digits
    \/ c = "_"

RECURSIVE TokenLen(_)
TokenLen(s) == IF s = <<>> \/ ~IsWordChar(Head(s)) THEN 0 ELSE 1 + TokenLen(Tail(s))

\* the first token (maximal run of identifier characters) of the
\* whitespace-normalized, case-folded statement
FirstToken(q) == LET t == QueryCleaned(q) IN SubSeq(t, 1, TokenLen(t))

\* C1 (as stated): execute rejects with a policy violation exactly the
\* statements whose normalized, case-folded text does not begin with the
\* token SELECT.
C1_GateByToken ==
    pc = "done" => ((output.error = "OnlySelect") <=> (FirstToken(input) # SELECT))

\* C1 (amended): execute rejects with a policy violation exactly the
\* statements whose text, after leading whitespace, does not start with the
\* six characters SELECT in any letter case; whatever follows them (as in
\* SELECTX) passes the gate and reaches the database.
C1_GateByPrefix ==
    pc = "done" =>
        /\ (output.error = "OnlySelect") <=> ~PrefixIsSelect(input)
        /\ PrefixIsSelect(input) => output.sent = <<input>>
        /\ ~PrefixIsSelect(input) => output.sent = <<>> /\ ~output.ok

\* '  select * from t' and 'SELECT 1; DROP TABLE t' passed, 'DELETE FROM t'
\* was rejected, 'SELECTX' passed
SelectStar == <<" "," ","s","e","l","e","c","t"," ","*"," ","f","r","o","m"," ","t">>

SelectDrop ==
    <<"S","E","L","E","C","T"," ","1",";"," ","D","R","O","P"," ","T","A","B","L","E"," ","t">>

DeleteFrom == <<"D","E","L","E","T","E"," ","F","R","O","M"," ","t">>

SelectX == <<"S","E","L","E","C","T","X">>

C1_Witness ==
    /\ pc = "done"
    /\ \/ input = SelectStar /\ output.sent = <<input>>
       \/ input = SelectX /\ output.sent = <<input>>

C1_WitnessRejected == pc = "done" /\ input = DeleteFrom /\ output.error = "OnlySelect"

--------------------------------------------------------------------------
(* Specification SpecGen: generate_sql applied to bounded replies.         *)

MaxRaw == 3

RawChunks ==
    {"{", "}", "<sql>", "<explanation>", "<hint>", "<confidence>", "<key>", "<number>", "<word>", "<select>", "#", "\n", " ", FenceOpen, FenceClose}

\* every reply of at most MaxRaw chunks
RawReplies == UNION { [1..n -> RawChunks] : n \in 0..MaxRaw }

\* an object with any of the four members, possibly a nested value or a
\* stray word, possibly fenced or surrounded by prose
ObjectReplies ==
    LET Leads == { <<>>, <<FenceOpen, "\n">>, <<"<word>", " ">> }
        Trails == { <<>>, <<"\n", FenceClose>>, <<" ", "<word>">> }
        Extras == { <<>>, <<"<key>", "{", "}">>, <<"<key>", "<number>">>, <<"<word>">> }
        Opt(b, m) == IF b THEN <<m>> ELSE <<>>
    IN  { l \o <<"{">> \o Opt(s, "<sql>") \o Opt(e, "<explanation>") \o Opt(v, "<hint>") \o Opt(c, "<confidence>")
            \o x \o <<"}">> \o t :
          l \in Leads, t \in Trails, x \in Extras,
          s \in BOOLEAN, e \in BOOLEAN, v \in BOOLEAN, c \in BOOLEAN }

GenInputs ==
    {Completion("connection", <<>>), Completion("model", <<>>)}
    \cup {Completion("none", r) : r \in RawReplies \cup ObjectReplies}

InitGen == InitSys /\ pc = "in" /\ input \in GenInputs /\ output = NoOutput

GenerateSqlStep ==
    /\ pc = "in"
    /\ output' = GenerateSql(input)
    /\ pc' = "done"
    /\ UNCHANGED <<input, connections, objs, dbUp, query_history, nextQid, clock, last>>

NextGen == GenerateSqlStep

SpecGen == InitGen /\ [][NextGen]_vars

\* the reply as the pipeline sees it after trimming and fence stripping
Stripped(reply) == StripFences(Strip(reply))

SpanParses(reply) ==
    JsonMatch(Stripped(reply)) # <<>> /\ JsonLoads(JsonMatch(Stripped(reply))).ok

WholeParses(reply) == JsonLoads(Strip(Stripped(reply))).ok

\* the stage that decides the result when the stages run in the stated order
ClaimedStage(reply) ==
    IF SpanParses(reply) THEN "span"
    ELSE IF WholeParses(reply) THEN "whole"
    ELSE "heuristic"

\* C7: the repair pipeline runs span parse, then (whenever that fails) a
\* parse of the entire trimmed reply, and the heuristic fallback only when
\* both fail: the stage that produced the result is the first that succeeds.
C7_RepairOrder ==
    (pc = "done" /\ input.err = "none") =>
        output.stages[Len(output.stages)] = ClaimedStage(input.text)

\* the lines of a text, by position: a line starts at 1 and after every
\* newline, and runs to the next newline or the end
LineStarts(content) == {1} \cup {i + 1 : i \in {j \in 1..Len(content) : content[j] = "\n"}}

LineAt(content, a) ==
    LET ends == {j \in a..(Len(content) + 1) : j = Len(content) + 1 \/ content[j] = "\n"}
    IN  SubSeq(content, a, (CHOOSE j \in ends : \A k \in ends : j <= k) - 1)

\* the line has a non-blank character and its first one is not the marker
NonBlankNonComment(line) ==
    \E i \in 1..Len(line) :
        /\ ~IsSpace(line[i])
        /\ \A j \in 1..(i - 1) : IsSpace(line[j])
        /\ line[i] # "#"

RECURSIVE JoinLinesAt(_, _)
JoinLinesAt(content, starts) ==
    IF starts = {} THEN <<>>
    ELSE LET a == CHOOSE x \in starts : \A y \in starts : x <= y
         IN  LineAt(content, a)
             \o (IF starts = {a} THEN <<>>
                 ELSE <<" ">> \o JoinLinesAt(content, starts \ {a}))

\* the non-blank, non-comment lines joined with single spaces
ClaimedFallbackSql(content) ==
    JoinLinesAt(content,
                {a \in LineStarts(content) : NonBlankNonComment(LineAt(content, a))})

\* C8: when neither the brace span nor the whole reply parses as JSON,
\* generate returns (does not fail) a query with confidence 0.7, hint
\* table, the generic explanation, and as sql the non-blank lines of the
\* (fence-stripped) reply that do not start with the comment marker, joined
\* with single spaces.
C8_FallbackOnUnparseable ==
    (pc = "done" /\ input.err = "none"
        /\ ~SpanParses(input.text) /\ ~WholeParses(input.text)) =>
        /\ output.status = "ok"
        /\ output.confidence = 70
        /\ output.visualization_hint = "table"
        /\ output.explanation = <<"Generated SQL query from natural language">>
        /\ output.sql = ClaimedFallbackSql(Stripped(input.text))

\* a comment line, a blank line and a line of SQL: only the SQL is kept
C8_Witness ==
    /\ pc = "done"
    /\ input.err = "none"
    /\ input.text = <<"#", "\n", "<select>">>
    /\ output.status = "ok"
    /\ output.sql = <<"<select>">>
    /\ output.confidence = 70

\* the object the reply parses as, by the span or else as a whole
ReplyObject(reply) ==
    IF SpanParses(reply) THEN JsonLoads(JsonMatch(Stripped(reply)))
    ELSE JsonLoads(Strip(Stripped(reply)))

ParsesAsObject(reply) ==
    (SpanParses(reply) \/ WholeParses(reply)) /\ ReplyObject(reply).kind = "object"

\* C9: a reply that parses as a JSON object is returned only with all of
\* sql, explanation and visualization_hint; with one of them absent generate
\* fails with a validation error instead of falling back; with only
\* confidence absent the object is returned with confidence 0.8.
C9_ValidatesParsedObject ==
    (pc = "done" /\ input.err = "none" /\ ParsesAsObject(input.text)) =>
        LET obj == ReplyObject(input.text)
        IN  IF RequiredKeys \subseteq Keys(obj)
            THEN /\ output.status = "ok"
                 /\ output.sql = Lookup(obj, "sql")
                 /\ "confidence" \notin Keys(obj) => output.confidence = 80
            ELSE /\ output.status = "error"
                 /\ output.error = "MissingFields"

--------------------------------------------------------------------------
(* The service: DatabaseConnection, ConnectionManager and the routes.      *)

MaxObjs == 2

MaxHist == 2

\* str.lower on one character
LowerChar(c) ==
    IF \E i \in 1..26 : UpperLetters[i] = c
    THEN LowerLetters[CHOOSE i \in 1..26 : UpperLetters[i] = c]
    ELSE c

\* str.lower
Lower(s) == [i \in 1..Len(s) |-> LowerChar(s[i])]

\* class DatabaseType
DatabaseType ==
    { <<"m","y","s","q","l">>,
      <<"p","o","s","t","g","r","e","s","q","l">>,
      <<"m","a","r","i","a","d","b">>,
      <<"s","q","l","i","t","e">> }

\* the db_type values requests carry
DbTypeInputs == { <<"M","y","S","Q","L">>, <<"o","r","a","c","l","e">> }

\* the connection targets requests carry: "db" reaches the database server
\* when it is up; create_engine cannot make an engine of "malformed"
Targets == {"db", "malformed"}

Select1 == <<"<select-1>">>

\* DatabaseConnection.__init__
NewObj(t, target) == [db_type |-> t, target |-> target, engine |-> "none", ready |-> FALSE]

\* DatabaseConnection.connect(): the object afterwards, the returned bool
\* and the probe sent
Connect(o, up) ==
    IF o.target = "malformed" THEN [ok |-> FALSE, obj |-> o, sent |-> <<>>]
    ELSE IF ~up THEN [ok |-> FALSE, obj |-> [o EXCEPT !.engine = "open"], sent |-> <<>>]
    ELSE [ok |-> TRUE, obj |-> [o EXCEPT !.engine = "open", !.ready = TRUE],
          sent |-> <<Select1>>]

\* a test_connection without the engine check and without the try: what
\* engine.connect() raises leaves the method
TestConnUnguarded(o, up) ==
    IF o.engine # "open" \/ ~up THEN [ok |-> FALSE, raised |-> TRUE, sent |-> <<>>]
    ELSE [ok |-> TRUE, raised |-> FALSE, sent |-> <<Select1>>]

\* DatabaseConnection.test_connection(): the returned bool, whether an
\* exception left the method, and the probe sent
TestConn(o, up) ==
    IF o.engine # "open" THEN [ok |-> FALSE, raised |-> FALSE, sent |-> <<>>]
    ELSE IF ~up THEN [ok |-> FALSE, raised |-> FALSE, sent |-> <<>>]
    ELSE [ok |-> TRUE, raised |-> FALSE, sent |-> <<Select1>>]

\* DatabaseConnection.get_schema_info(): whether the catalog could be read
\* (the catalog queries are the inspector's, not statements of a caller)
GetSchemaInfo(o, up) == o.engine = "open" /\ up

\* the tables of the database
SchemaTables == {"t"}

TableInputs == {"t", "nope"}

\* DatabaseConnection.close()
Close(o) == IF o.engine # "none" THEN [o EXCEPT !.engine = "none", !.ready = FALSE] ELSE o

\* an add_connection that stores the connection whatever connect() returned
AddConnectionAlways(conns, cid, k, ok) == [conns EXCEPT ![cid] = k]

\* ConnectionManager.add_connection, after connection.connect() returned ok:
\* the registry afterwards (k is the new object)
AddConnection(conns, cid, k, ok) == IF ok THEN [conns EXCEPT ![cid] = k] ELSE conns

\* a remove_connection that closes the connection and keeps the entry
RemoveKeepsEntry(conns, cid) == conns

\* ConnectionManager.remove_connection: the registry afterwards
RemoveConnection(conns, cid) == [conns EXCEPT ![cid] = 0]

\* ConnectionManager.list_connections
ListConnectionIds == {c \in ConnIds : connections[c] # 0}

\* str(e) for a caught HTTPException built with keyword arguments: the
\* framework renders "<status>: <detail>" where it defines __str__, and the
\* empty string where it does not
StrHTTP(text) == {text, ""}

\* the statements a handler sent, tagged with the connection object
Tagged(k, stmts) == [i \in 1..Len(stmts) |-> [obj |-> k, sql |-> stmts[i]]]

\* connections.create_connection: the two HTTPExceptions are raised inside
\* the try and leave through its except clause, as a 400 with detail str(e)
CreateConnection(cid, dbt, target) ==
    /\ IF Lower(dbt) \notin DatabaseType
       THEN /\ \E d \in StrHTTP("400: Unsupported database type") :
                   last' = Resp("create_connection", 400, d, cid, 0, FALSE, <<>>, FALSE,
                                0, -1, <<>>)
            /\ UNCHANGED <<connections, objs>>
       ELSE LET c == Connect(NewObj(Lower(dbt), target), dbUp)
                k == Len(objs) + 1
                stored == AddConnection(connections, cid, k, c.ok)
            IN  /\ stored # connections => Len(objs) < MaxObjs
                /\ connections' = stored
                \* an object nothing refers to is garbage
                /\ objs' = IF stored # connections THEN Append(objs, c.obj) ELSE objs
                /\ IF c.ok
                   THEN last' = Resp("create_connection", 200, "connected", cid, 0, FALSE,
                                     Tagged(k, c.sent), FALSE, 0, -1, <<>>)
                   ELSE \E d \in StrHTTP("400: Failed to establish database connection") :
                            last' = Resp("create_connection", 400, d, cid, 0, FALSE, <<>>,
                                         FALSE, 0, -1, <<>>)
    /\ UNCHANGED <<dbUp, query_history, nextQid, clock>>

\* the ids in a fixed order
IdOrder == <<"c1", "c2">>

RECURSIVE ProbeAll(_)
ProbeAll(ids) ==
    IF ids = <<>> THEN <<>>
    ELSE (IF connections[Head(ids)] = 0 THEN <<>>
          ELSE Tagged(connections[Head(ids)],
                      TestConn(objs[connections[Head(ids)]], dbUp).sent))
         \o ProbeAll(Tail(ids))

\* connections.list_connections: every registered id with its probe's result
ListConnections ==
    /\ last' = Resp("list_connections", 200, "", "", 0, FALSE, ProbeAll(IdOrder), FALSE,
                    0, -1,
                    [c \in ListConnectionIds |-> TestConn(objs[connections[c]], dbUp).ok])
    /\ UNCHANGED <<connections, objs, dbUp, query_history, nextQid, clock>>

\* a delete_connection that also drops the history entries of the connection
DeleteConnectionCascade(cid) ==
    /\ IF connections[cid] = 0
       THEN /\ last' = Resp("delete_connection", 404, "Connection not found", cid, 0,
                            TRUE, <<>>, FALSE, 0, -1, <<>>)
            /\ UNCHANGED <<connections, objs, query_history>>
       ELSE /\ objs' = [objs EXCEPT ![connections[cid]] = Close(@)]
            /\ connections' = [connections EXCEPT ![cid] = 0]
            /\ query_history' =
                   [q \in {x \in DOMAIN query_history :
                              query_history[x].connection_id # cid} |-> query_history[q]]
            /\ last' = Resp("delete_connection", 200, "deleted", cid, 0, FALSE, <<>>,
                            FALSE, 0, -1, <<>>)
    /\ UNCHANGED <<dbUp, nextQid, clock>>

\* a delete_connection that disposes the pool and leaves the entry stored
DeleteConnectionDisposeOnly(cid) ==
    /\ IF connections[cid] = 0
       THEN /\ last' = Resp("delete_connection", 404, "Connection not found", cid, 0,
                            TRUE, <<>>, FALSE, 0, -1, <<>>)
            /\ UNCHANGED objs
       ELSE /\ objs' = [objs EXCEPT ![connections[cid]] = Close(@)]
            /\ last' = Resp("delete_connection", 200, "deleted", cid, 0, FALSE, <<>>,
                            FALSE, 0, -1, <<>>)
    /\ UNCHANGED <<connections, dbUp, query_history, nextQid, clock>>

\* connections.delete_connection
DeleteConnection(cid) ==
    /\ IF connections[cid] = 0
       THEN /\ last' = Resp("delete_connection", 404, "Connection not found", cid, 0,
                            TRUE, <<>>, FALSE, 0, -1, <<>>)
            /\ UNCHANGED <<connections, objs>>
       ELSE /\ objs' = [objs EXCEPT ![connections[cid]] = Close(@)]
            /\ connections' = RemoveConnection(connections, cid)
            /\ last' = Resp("delete_connection", 200, "deleted", cid, 0, FALSE, <<>>,
                            FALSE, 0, -1, <<>>)
    /\ UNCHANGED <<dbUp, query_history, nextQid, clock>>

\* connections.test_connection
TestConnection(cid) ==
    /\ IF connections[cid] = 0
       THEN last' = Resp("test_connection", 404, "Connection not found", cid, 0, TRUE,
                         <<>>, FALSE, 0, -1, <<>>)
       ELSE LET t == TestConn(objs[connections[cid]], dbUp)
            IN  last' = Resp("test_connection", 200,
                             IF t.ok THEN "connected" ELSE "disconnected", cid, 0, FALSE,
                             Tagged(connections[cid], t.sent), FALSE, 0, -1, <<>>)
    /\ UNCHANGED <<connections, objs, dbUp, query_history, nextQid, clock>>

\* schema.get_schema, schema.list_tables and schema.get_table_info (table
\* "" for the first two): every failure, the 404s included, is caught by the
\* handler's except clause and leaves as a 500 whose detail is str(e)
SchemaRoute(op, cid, table) ==
    /\ IF connections[cid] = 0
       THEN \E d \in StrHTTP("404: Connection not found") : last' = Resp(op, 500, d, cid, 0,
                         TRUE, <<>>, FALSE, 0, -1, <<>>)
       ELSE IF ~GetSchemaInfo(objs[connections[cid]], dbUp)
       THEN last' = Resp(op, 500, "Failed to get schema info", cid, 0, FALSE, <<>>,
                         FALSE, 0, -1, <<>>)
       ELSE IF op = "get_table_info" /\ table \notin SchemaTables
       THEN \E d \in StrHTTP("404: Table not found") : last' = Resp(op, 500, d, cid, 0,
                         FALSE, <<>>, FALSE, 0, -1, <<>>)
       ELSE last' = Resp(op, 200, "", cid, 0, FALSE, <<>>, FALSE, 0, -1, <<table>>)
    /\ UNCHANGED <<connections, objs, dbUp, query_history, nextQid, clock>>

GetSchema(cid) == SchemaRoute("get_schema", cid, "")

ListTables(cid) == SchemaRoute("list_tables", cid, "")

GetTableInfo(cid, table) == SchemaRoute("get_table_info", cid, table)

\* the environment: the database server goes away and comes back
Sever ==
    /\ dbUp
    /\ dbUp' = FALSE
    /\ last' = Resp("sever", 0, "", "", 0, FALSE, <<>>, FALSE, 0, -1, <<>>)
    /\ UNCHANGED <<connections, objs, query_history, nextQid, clock>>

Restore ==
    /\ ~dbUp
    /\ dbUp' = TRUE
    /\ last' = Resp("restore", 0, "", "", 0, FALSE, <<>>, FALSE, 0, -1, <<>>)
    /\ UNCHANGED <<connections, objs, query_history, nextQid, clock>>

--------------------------------------------------------------------------
(* Specification SpecObj: the life of one DatabaseConnection object, with  *)
(* connect, test_connection and close called in any order while the        *)
(* database server goes away and comes back.                               *)

\* the object under test is objs[1]; input holds what it was built from
InitObj ==
    /\ connections = [c \in ConnIds |-> 0]
    /\ dbUp \in BOOLEAN
    /\ query_history = <<>>
    /\ nextQid = 1
    /\ clock = 0
    /\ last = NoResponse
    /\ pc = "obj"
    /\ \E t \in DatabaseType, target \in Targets :
           /\ input = <<t, target>>
           /\ objs = <<NewObj(t, target)>>
    /\ output = NoOutput

ObjFrame == UNCHANGED <<connections, query_history, nextQid, clock, last, pc, input>>

\* connection.connect()
ObjConnect ==
    /\ pc = "obj"
    /\ LET c == Connect(objs[1], dbUp)
       IN  /\ objs' = <<c.obj>>
           /\ output' = [op |-> "connect", ok |-> c.ok, raised |-> FALSE]
    /\ UNCHANGED dbUp
    /\ ObjFrame

\* connection.test_connection()
ObjTestConnection ==
    /\ pc = "obj"
    /\ LET t == TestConn(objs[1], dbUp)
       IN  output' = [op |-> "test_connection", ok |-> t.ok, raised |-> t.raised]
    /\ UNCHANGED <<objs, dbUp>>
    /\ ObjFrame

\* connection.close()
ObjClose ==
    /\ pc = "obj"
    /\ objs' = <<Close(objs[1])>>
    /\ output' = [op |-> "close", ok |-> TRUE, raised |-> FALSE]
    /\ UNCHANGED dbUp
    /\ ObjFrame

\* the server goes away, or comes back
ObjSever ==
    /\ pc = "obj"
    /\ dbUp' = ~dbUp
    /\ output' = [op |-> IF dbUp THEN "sever" ELSE "restore", ok |-> TRUE, raised |-> FALSE]
    /\ UNCHANGED objs
    /\ ObjFrame

NextObj == ObjConnect \/ ObjTestConnection \/ ObjClose \/ ObjSever

SpecObj == InitObj /\ [][NextObj]_vars

\* C12: test_connection returns true when it is called right after a
\* connect() that succeeded; it returns false, and no exception leaves it,
\* when the server is severed or the connection is closed (or was never
\* connected).
C12_TestReportsLiveness ==
    [][output'.op = "test_connection" =>
           /\ ~output'.raised
           /\ (output.op = "connect" /\ output.ok) => output'.ok
           /\ (~dbUp \/ objs[1].engine = "none") => ~output'.ok]_vars

\* test_connection said false on a connection that had connected and was
\* then closed, with the server up
C12_Witness ==
    /\ output.op = "test_connection"
    /\ ~output.ok
    /\ ~output.raised
    /\ dbUp
    /\ objs[1].engine = "none"
    /\ input[2] = "db"

--------------------------------------------------------------------------
(* Specification SpecReg: the ConnectionManager called directly, with      *)
(* add_connection, remove_connection, get_connection, list_connections and *)
(* test_connection on a stored connection, in any order.                   *)

InitReg ==
    /\ connections = [c \in ConnIds |-> 0]
    /\ objs = <<>>
    /\ dbUp \in BOOLEAN
    /\ query_history = <<>>
    /\ nextQid = 1
    /\ clock = 0
    /\ last = NoResponse
    /\ pc = "reg"
    /\ input = <<>>
    /\ output = NoOutput

RegFrame == UNCHANGED <<query_history, nextQid, clock, last, pc, input>>

\* what a call returned: val is the object get_connection returned (0: None)
\* or the ids list_connections returned
Out(op, cid, ok, val) == [op |-> op, cid |-> cid, ok |-> ok, raised |-> FALSE, val |-> val]

\* an add_connection that closes the connection it replaces
MgrAddClosesOld(cid, t, target) ==
    /\ pc = "reg"
    /\ LET c == Connect(NewObj(t, target), dbUp)
           k == Len(objs) + 1
           stored == AddConnection(connections, cid, k, c.ok)
           kept == IF c.ok /\ connections[cid] # 0
                   THEN [objs EXCEPT ![connections[cid]] = Close(@)]
                   ELSE objs
       IN  /\ stored # connections => Len(objs) < MaxObjs
           /\ connections' = stored
           /\ objs' = IF stored # connections THEN Append(kept, c.obj) ELSE objs
           /\ output' = Out("add_connection", cid, c.ok, 0)
    /\ UNCHANGED dbUp
    /\ RegFrame

\* connection_manager.add_connection(cid, DatabaseConnection(...))
MgrAdd(cid, t, target) ==
    /\ pc = "reg"
    /\ LET c == Connect(NewObj(t, target), dbUp)
           k == Len(objs) + 1
           stored == AddConnection(connections, cid, k, c.ok)
       IN  /\ stored # connections => Len(objs) < MaxObjs
           /\ connections' = stored
           /\ objs' = IF stored # connections THEN Append(objs, c.obj) ELSE objs
           /\ output' = Out("add_connection", cid, c.ok, 0)
    /\ UNCHANGED dbUp
    /\ RegFrame

\* a remove_connection that closes and forgets every connection
MgrRemoveAll(cid) ==
    /\ pc = "reg"
    /\ objs' = [i \in 1..Len(objs) |->
                   IF \E c \in ConnIds : connections[c] = i THEN Close(objs[i]) ELSE objs[i]]
    /\ connections' = [c \in ConnIds |-> 0]
    /\ output' = Out("remove_connection", cid, TRUE, 0)
    /\ UNCHANGED dbUp
    /\ RegFrame

\* connection_manager.remove_connection(cid)
MgrRemove(cid) ==
    /\ pc = "reg"
    /\ IF connections[cid] # 0
       THEN /\ objs' = [objs EXCEPT ![connections[cid]] = Close(@)]
            /\ connections' = RemoveConnection(connections, cid)
       ELSE UNCHANGED <<connections, objs>>
    /\ output' = Out("remove_connection", cid, TRUE, 0)
    /\ UNCHANGED dbUp
    /\ RegFrame

\* connection_manager.get_connection(cid)
MgrGet(cid) ==
    /\ pc = "reg"
    /\ output' = Out("get_connection", cid, TRUE, connections[cid])
    /\ UNCHANGED <<connections, objs, dbUp>>
    /\ RegFrame

\* connection_manager.list_connections()
MgrList ==
    /\ pc = "reg"
    /\ output' = Out("list_connections", "", TRUE, ListConnectionIds)
    /\ UNCHANGED <<connections, objs, dbUp>>
    /\ RegFrame

\* a test that drops the connection when its probe fails
MgrTestEvicts(cid) ==
    /\ pc = "reg"
    /\ connections[cid] # 0
    /\ LET t == TestConn(objs[connections[cid]], dbUp)
       IN  /\ output' = Out("test_connection", cid, t.ok, connections[cid])
           /\ connections' = IF t.ok THEN connections ELSE [connections EXCEPT ![cid] = 0]
    /\ UNCHANGED <<objs, dbUp>>
    /\ RegFrame

\* connection_manager.get_connection(cid).test_connection(), cid registered
MgrTest(cid) ==
    /\ pc = "reg"
    /\ connections[cid] # 0
    /\ LET t == TestConn(objs[connections[cid]], dbUp)
       IN  output' = [Out("test_connection", cid, t.ok, connections[cid])
                        EXCEPT !.raised = t.raised]
    /\ UNCHANGED <<connections, objs, dbUp>>
    /\ RegFrame

\* the server goes away, or comes back
MgrSever ==
    /\ pc = "reg"
    /\ dbUp' = ~dbUp
    /\ output' = Out(IF dbUp THEN "sever" ELSE "restore", "", TRUE, 0)
    /\ UNCHANGED <<connections, objs>>
    /\ RegFrame

NextReg ==
    \/ \E cid \in ConnIds, t \in DatabaseType, target \in Targets : MgrAdd(cid, t, target)
    \/ \E cid \in ConnIds : MgrRemove(cid)
    \/ \E cid \in ConnIds : MgrGet(cid)
    \/ MgrList
    \/ \E cid \in ConnIds : MgrTest(cid)
    \/ MgrSever

SpecReg == InitReg /\ [][NextReg]_vars

--------------------------------------------------------------------------
(* AIQueryService.suggest_visualization                                    *)

VizTypes == {"table", "bar_chart", "line_chart", "pie_chart", "kpi"}

TimeWords ==
    { <<"d","a","t","e">>, <<"t","i","m","e">>, <<"c","r","e","a","t","e","d">>,
      <<"u","p","d","a","t","e","d">> }

\* sub in s
Contains(s, sub) ==
    \E i \in 0..(Len(s) - Len(sub)) : SubSeq(s, i + 1, i + Len(sub)) = sub

\* columns = list(data[0].keys()) if data else []
Columns(data) == IF data = <<>> THEN <<>> ELSE [i \in 1..Len(data[1]) |-> data[1][i].col]

\* isinstance(value, (int, float)); bool is a subclass of int
IsNumeric(kind) == kind \in {"int", "float", "bool"}

SuggestVisualization(data, columns) ==
    IF data = <<>> \/ columns = <<>> THEN "table"
    ELSE IF Len(data) = 1 /\ Len(columns) = 1 THEN "kpi"
    ELSE IF (\E i \in 1..Len(columns) : \E w \in TimeWords : Contains(Lower(columns[i]), w))
            /\ Len(data) > 1
         THEN "line_chart"
    ELSE IF Len(columns) = 2 /\ Len(data) <= 20
            /\ \E r \in 1..Len(data) : r <= 3 /\ \E i \in 1..Len(data[r]) :
                   IsNumeric(data[r][i].kind)
         THEN (IF Len(data) > 5 THEN "bar_chart" ELSE "pie_chart")
    ELSE "table"

--------------------------------------------------------------------------
(* Specification SpecViz: suggest_visualization applied to result sets of  *)
(* every shape: no rows to more than twenty, no columns to MaxCols, values *)
(* of every kind a driver returns.                                         *)

MaxCols == 3

\* column names: plain, temporal in mixed case, plain
ColTotal == <<"t","o","t","a","l">>
ColCreatedAt == <<"C","r","e","a","t","e","d","_","A","t">>
ColName == <<"n","a","m","e">>
ColNames == {ColTotal, ColCreatedAt, ColName}

RECURSIVE ColumnListsOf(_)
ColumnListsOf(n) ==
    IF n = 0 THEN {<<>>}
    ELSE {<<>>} \cup {<<c>> \o l : c \in ColNames, l \in ColumnListsOf(n - 1)}

ColumnLists == ColumnListsOf(MaxCols)

\* the Python types of the values in a row: int, float, bool, Decimal
\* (NUMERIC columns and SUM/AVG), str, None
ValueKinds == {"int", "float", "bool", "decimal", "str", "none"}

RowCounts == {0, 1, 2, 3, 5, 6, 20, 21}

\* the row from which on the values have the drawn kind (text before it)
KindStarts == {1, 4}

\* n rows over the columns cols
RowsOf(n, cols, kind, start) ==
    [r \in 1..n |-> [i \in 1..Len(cols) |->
                        Cell(cols[i], IF r >= start THEN kind ELSE "str")]]

InitViz ==
    /\ connections = [c \in ConnIds |-> 0]
    /\ objs = <<>>
    /\ dbUp = TRUE
    /\ query_history = <<>>
    /\ nextQid = 1
    /\ clock = 0
    /\ last = NoResponse
    /\ pc = "viz"
    /\ \E cols \in ColumnLists, n \in RowCounts, kind \in ValueKinds, start \in KindStarts :
          input = <<RowsOf(n, cols, kind, start), cols>>
    /\ output = NoOutput

\* visualization_type = ai_service.suggest_visualization(data, columns)
SuggestStep ==
    /\ pc = "viz"
    /\ output = NoOutput
    /\ output' = [op |-> "suggest", viz |-> SuggestVisualization(input[1], input[2])]
    /\ UNCHANGED <<connections, objs, dbUp, query_history, nextQid, clock, last, pc, input>>

NextViz == SuggestStep

SpecViz == InitViz /\ [][NextViz]_vars

--------------------------------------------------------------------------
(* routes/queries.py and routes/exports.py                                 *)

\* QueryHistory (execution_time, a measured duration, is left out)
Entry(id, orig, sql, cid, ts, n, viz) ==
    [query_id |-> id, original_query |-> orig, generated_sql |-> sql,
     connection_id |-> cid, timestamp |-> ts, row_count |-> n,
     visualization_type |-> viz]

\* a store that stamps every entry with the time of the latest one
PutTouchAll(hist, id, entry) ==
    [q \in DOMAIN hist \cup {id} |->
        IF q = id THEN entry ELSE [hist[q] EXCEPT !.timestamp = entry.timestamp]]

\* query_history[id] = entry
Put(hist, id, entry) ==
    [q \in DOMAIN hist \cup {id} |-> IF q = id THEN entry ELSE hist[q]]

\* del query_history[id]
Del(hist, id) == [q \in DOMAIN hist \ {id} |-> hist[q]]

\* an id generator that can hand out the id it handed out last
StaleQueryId == IF nextQid > 1 THEN nextQid - 1 ELSE nextQid

\* str(uuid.uuid4()): the next id never drawn before
NewQueryId == nextQid

\* a rerun that keeps the id of the entry it reruns
RerunKeepsId(old) == old

\* line 156: the id of a rerun's entry
RerunQueryId(old) == NewQueryId

\* the questions and the statements callers submit
Questions == {"how many users"}

RawSqls == { <<" ", "<select>">>, <<"<delete>">> }

\* what the completion call may do in the service
Completions ==
    { Completion("connection", <<>>),
      Completion("none", <<"{", "<sql>", "<explanation>", "<hint>", "}">>),
      Completion("none", <<"{", "<sql-delete>", "<explanation>", "<hint>", "}">>) }

\* the replies of the service, and one whose visualization_hint is not one
\* of the five types
HintCompletions ==
    Completions \cup {Completion("none", <<"{", "<sql>", "<explanation>", "<hint-other>", "}">>)}

\* generate_sql on each of them
Generated == [c \in HintCompletions |-> GenerateSql(c)]

\* the statements the service handles and the states a registered
\* connection object is in
Statements == RawSqls \cup {Generated[c].sql : c \in Completions}

ObjStates ==
    { Connect(NewObj(t, "db"), TRUE).obj : t \in DatabaseType }
        \cup { Close(Connect(NewObj(t, "db"), TRUE).obj) : t \in DatabaseType }

\* the answers of the database, and two with more than one row: a name and
\* a number, and a temporal column
HintAnswers ==
    DbAnswers \cup {[err |-> FALSE, rows |-> r] :
                       r \in {RowsOf(2, <<ColName, ColTotal>>, "int", 1),
                              RowsOf(2, <<ColCreatedAt>>, "str", 1)}}

\* execute_query on each of them
Executed ==
    [o \in ObjStates, q \in Statements, up \in BOOLEAN, ans \in HintAnswers |->
        ExecuteQuery(o, q, up, ans)]

\* lines 71-98, 155-182, 223-250: the entry is stored under a new id and
\* the result returned; datetime.now() is later than every earlier reading
RecordWith(op, id, cid, argQid, orig, sql, data, viz, sentAll, ai, hint) ==
    /\ id <= MaxHist
    /\ query_history' =
           Put(query_history, id, Entry(id, orig, sql, cid, clock + 1, Len(data), viz))
    /\ nextQid' = nextQid + 1
    /\ clock' = clock + 1
    /\ last' = [Resp(op, 200, "", cid, argQid, FALSE, sentAll, ai, id, Len(data),
                     Columns(data)) EXCEPT !.tried = <<sql>>, !.fetched = <<data>>,
                                    !.hint = hint]

\* the same for the requests that have no reply of the model
Record(op, id, cid, argQid, orig, sql, data, viz, sentAll, ai) ==
    RecordWith(op, id, cid, argQid, orig, sql, data, viz, sentAll, ai, "-")

\* a failing handler that empties the history
RefuseDropsHistory(r) ==
    last' = r /\ query_history' = <<>> /\ UNCHANGED <<nextQid, clock>>

\* a handler that fails: the stores are as they were
Refuse(r) == last' = r /\ UNCHANGED <<query_history, nextQid, clock>>

\* a natural-language query that stores the hint of the reply as it is
ExecuteNaturalLanguageQueryTrustsHint(cid, question, completion, inspected, ans) ==
    LET k == connections[cid]
        R(detail, absent, sentAll, ai) ==
            Resp("nl_query", 400, detail, cid, 0, absent, sentAll, ai, 0, -1, <<>>)
    IN  /\ IF k = 0
           THEN \E d \in StrHTTP("404: Connection not found") : Refuse(R(d, TRUE, <<>>, FALSE))
           ELSE LET probe == TestConn(objs[k], dbUp)
                    g == Generated[completion]
                    sql == g.sql
                    r == Executed[objs[k], sql, dbUp, ans]
                    sentAll == Tagged(k, probe.sent \o r.sent)
                    viz == g.visualization_hint
                IN  IF ~probe.ok
                    THEN \E d \in StrHTTP("400: Database connection is not available") :
                             Refuse(R(d, FALSE, Tagged(k, probe.sent), FALSE))
                    ELSE IF ~(inspected /\ GetSchemaInfo(objs[k], dbUp))
                    THEN Refuse(R("Failed to get schema info", FALSE,
                                  Tagged(k, probe.sent), FALSE))
                    ELSE IF g.status # "ok"
                    THEN Refuse(R(g.error, FALSE, Tagged(k, probe.sent), TRUE))
                    ELSE IF ~r.ok
                    THEN Refuse([R(r.error, FALSE, sentAll, TRUE) EXCEPT !.tried = <<sql>>])
                    ELSE RecordWith("nl_query", NewQueryId, cid, 0, question, sql, r.data,
                                    viz, sentAll, TRUE, g.visualization_hint)
        /\ UNCHANGED <<connections, objs, dbUp>>

\* queries.execute_natural_language_query: the whole body is inside one try
\* whose except clause turns every exception, the 404 included, into a 400
\* with detail str(e)
\* (inspected: the inspector could read the catalogue; it can fail on its
\* own, e.g. for want of a privilege, with the server reachable)
ExecuteNaturalLanguageQuery(cid, question, completion, inspected, ans) ==
    LET k == connections[cid]
        R(detail, absent, sentAll, ai) ==
            Resp("nl_query", 400, detail, cid, 0, absent, sentAll, ai, 0, -1, <<>>)
    IN  /\ IF k = 0
           THEN \E d \in StrHTTP("404: Connection not found") : Refuse(R(d, TRUE, <<>>, FALSE))
           ELSE LET probe == TestConn(objs[k], dbUp)
                    g == Generated[completion]
                    sql == g.sql
                    r == Executed[objs[k], sql, dbUp, ans]
                    sentAll == Tagged(k, probe.sent \o r.sent)
                    viz == IF g.visualization_hint \in VizTypes THEN g.visualization_hint
                           ELSE SuggestVisualization(r.data, Columns(r.data))
                IN  IF ~probe.ok
                    THEN \E d \in StrHTTP("400: Database connection is not available") :
                             Refuse(R(d, FALSE, Tagged(k, probe.sent), FALSE))
                    ELSE IF ~(inspected /\ GetSchemaInfo(objs[k], dbUp))
                    THEN Refuse(R("Failed to get schema info", FALSE,
                                  Tagged(k, probe.sent), FALSE))
                    ELSE IF g.status # "ok"
                    THEN Refuse(R(g.error, FALSE, Tagged(k, probe.sent), TRUE))
                    ELSE IF ~r.ok
                    THEN Refuse([R(r.error, FALSE, sentAll, TRUE) EXCEPT !.tried = <<sql>>])
                    ELSE RecordWith("nl_query", NewQueryId, cid, 0, question, sql, r.data,
                                    viz, sentAll, TRUE, g.visualization_hint)
        /\ UNCHANGED <<connections, objs, dbUp>>

\* a raw execution that stores the statement without its outer blanks
ExecuteRawSqlStripped(cid, sql, ans) ==
    LET k == connections[cid]
        R(detail, absent, sentAll) ==
            Resp("raw_sql", 400, detail, cid, 0, absent, sentAll, FALSE, 0, -1, <<>>)
    IN  /\ IF k = 0
           THEN \E d \in StrHTTP("404: Connection not found") : Refuse(R(d, TRUE, <<>>))
           ELSE LET probe == TestConn(objs[k], dbUp)
                    r == Executed[objs[k], sql, dbUp, ans]
                    sentAll == Tagged(k, probe.sent \o r.sent)
                IN  IF ~probe.ok
                    THEN \E d \in StrHTTP("400: Database connection is not available") :
                             Refuse(R(d, FALSE, Tagged(k, probe.sent)))
                    ELSE IF ~r.ok
                    THEN Refuse([R(r.error, FALSE, sentAll) EXCEPT !.tried = <<sql>>])
                    ELSE Record("raw_sql", NewQueryId, cid, 0, "Raw SQL Query", Strip(sql), r.data,
                                SuggestVisualization(r.data, Columns(r.data)), sentAll,
                                FALSE)
        /\ UNCHANGED <<connections, objs, dbUp>>

\* queries.execute_raw_sql: as above, without the language model
ExecuteRawSql(cid, sql, ans) ==
    LET k == connections[cid]
        R(detail, absent, sentAll) ==
            Resp("raw_sql", 400, detail, cid, 0, absent, sentAll, FALSE, 0, -1, <<>>)
    IN  /\ IF k = 0
           THEN \E d \in StrHTTP("404: Connection not found") : Refuse(R(d, TRUE, <<>>))
           ELSE LET probe == TestConn(objs[k], dbUp)
                    r == Executed[objs[k], sql, dbUp, ans]
                    sentAll == Tagged(k, probe.sent \o r.sent)
                IN  IF ~probe.ok
                    THEN \E d \in StrHTTP("400: Database connection is not available") :
                             Refuse(R(d, FALSE, Tagged(k, probe.sent)))
                    ELSE IF ~r.ok
                    THEN Refuse([R(r.error, FALSE, sentAll) EXCEPT !.tried = <<sql>>])
                    ELSE Record("raw_sql", NewQueryId, cid, 0, "Raw SQL Query", sql, r.data,
                                SuggestVisualization(r.data, Columns(r.data)), sentAll,
                                FALSE)
        /\ UNCHANGED <<connections, objs, dbUp>>

\* queries.rerun_query: the two lookups and the probe are outside the try,
\* so their HTTPExceptions leave as raised
RerunQuery(qid, ans) ==
    LET R(status, detail, absent, sentAll) ==
            Resp("rerun", status, detail, "", qid, absent, sentAll, FALSE, 0, -1, <<>>)
    IN  /\ IF qid \notin DOMAIN query_history
           THEN Refuse(R(404, "Query not found", TRUE, <<>>))
           ELSE LET h == query_history[qid]
                    k == connections[h.connection_id]
                IN  IF k = 0
                    THEN Refuse(R(404, "Connection not found", TRUE, <<>>))
                    ELSE LET probe == TestConn(objs[k], dbUp)
                             r == Executed[objs[k], h.generated_sql, dbUp, ans]
                             sentAll == Tagged(k, probe.sent \o r.sent)
                         IN  IF ~probe.ok
                             THEN Refuse(R(400, "Database connection is not available",
                                           FALSE, Tagged(k, probe.sent)))
                             ELSE IF ~r.ok
                             THEN Refuse([R(400, r.error, FALSE, sentAll)
                                            EXCEPT !.tried = <<h.generated_sql>>])
                             ELSE Record("rerun", RerunQueryId(qid), h.connection_id, qid,
                                         h.original_query, h.generated_sql, r.data,
                                         h.visualization_type, sentAll, FALSE)
        /\ UNCHANGED <<connections, objs, dbUp>>

\* queries.get_query_by_id
GetQueryById(qid) ==
    /\ IF qid \notin DOMAIN query_history
       THEN last' = Resp("get_query", 404, "Query not found", "", qid, TRUE, <<>>, FALSE,
                         0, -1, <<>>)
       ELSE last' = Resp("get_query", 200, "", "", qid, FALSE, <<>>, FALSE, 0, -1,
                         <<query_history[qid]>>)
    /\ UNCHANGED <<connections, objs, dbUp, query_history, nextQid, clock>>

\* queries.delete_query_from_history
DeleteQueryFromHistory(qid) ==
    /\ IF qid \notin DOMAIN query_history
       THEN /\ last' = Resp("delete_query", 404, "Query not found", "", qid, TRUE, <<>>,
                            FALSE, 0, -1, <<>>)
            /\ UNCHANGED query_history
       ELSE /\ query_history' = Del(query_history, qid)
            /\ last' = Resp("delete_query", 200, "deleted", "", qid, FALSE, <<>>, FALSE,
                            0, -1, <<>>)
    /\ UNCHANGED <<connections, objs, dbUp, nextQid, clock>>

RECURSIVE SortAsc(_)
\* the oldest first
SortAsc(ids) ==
    IF ids = {} THEN <<>>
    ELSE LET first == CHOOSE x \in ids : \A y \in ids :
                          \/ query_history[x].timestamp < query_history[y].timestamp
                          \/ /\ query_history[x].timestamp = query_history[y].timestamp
                             /\ x <= y
         IN  <<first>> \o SortAsc(ids \ {first})

\* history_list.sort(key=timestamp, reverse=True): a stable sort of the
\* entries, which the dict holds in insertion order (ascending id)
RECURSIVE SortDesc(_)
SortDesc(ids) ==
    IF ids = {} THEN <<>>
    ELSE LET first == CHOOSE x \in ids : \A y \in ids :
                          \/ query_history[x].timestamp > query_history[y].timestamp
                          \/ /\ query_history[x].timestamp = query_history[y].timestamp
                             /\ x <= y
         IN  <<first>> \o SortDesc(ids \ {first})

\* seq[:n]
SliceTo(seq, n) ==
    IF n >= 0 THEN SubSeq(seq, 1, IF n < Len(seq) THEN n ELSE Len(seq))
    ELSE SubSeq(seq, 1, IF Len(seq) + n > 0 THEN Len(seq) + n ELSE 0)

Limits == {-1, 1, 50}

\* queries.get_query_history; the empty connection_id means no filter
GetQueryHistory(filter, limit) ==
    LET ids == {q \in DOMAIN query_history :
                   filter = "" \/ query_history[q].connection_id = filter}
    IN  /\ last' = [Resp("get_history", 200, "", filter, 0, FALSE, <<>>, FALSE, 0, -1,
                         SliceTo(SortDesc(ids), limit)) EXCEPT !.limit = limit]
        /\ UNCHANGED <<connections, objs, dbUp, query_history, nextQid, clock>>

\* exports.export_to_csv and exports.export_to_json: the whole body is
\* inside one try whose except clause turns every exception, the 404s and
\* the 400 of an empty result included, into a 500; there is no probe
Export(op, qid, ans) ==
    LET R(status, detail, absent, sentAll) ==
            Resp(op, status, detail, "", qid, absent, sentAll, FALSE, 0, -1, <<>>)
    IN  /\ IF qid \notin DOMAIN query_history
           THEN \E d \in StrHTTP("404: Query not found") : last' = R(500, d, TRUE, <<>>)
           ELSE LET h == query_history[qid]
                    k == connections[h.connection_id]
                IN  IF k = 0
                    THEN \E d \in StrHTTP("404: Connection not found") :
                             last' = R(500, d, TRUE, <<>>)
                    ELSE LET r == Executed[objs[k], h.generated_sql, dbUp, ans]
                         IN  IF ~r.ok
                             THEN last' = [R(500, r.error, FALSE, Tagged(k, r.sent))
                                             EXCEPT !.tried = <<h.generated_sql>>]
                             ELSE IF op = "export_csv" /\ r.data = <<>>
                             THEN \E d \in StrHTTP("400: No data to export") :
                                      last' = [R(500, d, FALSE, Tagged(k, r.sent))
                                                 EXCEPT !.tried = <<h.generated_sql>>,
                                                        !.fetched = <<r.data>>]
                             ELSE last' = [R(200, "", FALSE, Tagged(k, r.sent))
                                             EXCEPT !.tried = <<h.generated_sql>>,
                                                    !.fetched = <<r.data>>,
                                                    !.rows = Len(r.data),
                                                    !.body = Columns(r.data)]
        /\ UNCHANGED <<connections, objs, dbUp, query_history, nextQid, clock>>

ExportToCsv(qid, ans) == Export("export_csv", qid, ans)

ExportToJson(qid, ans) == Export("export_json", qid, ans)

QueryIds == 1..MaxHist


PureIdle == UNCHANGED <<pc, input, output>>

Next ==
    \/ \E cid \in ConnIds, dbt \in DbTypeInputs, target \in Targets :
           CreateConnection(cid, dbt, target) /\ PureIdle
    \/ ListConnections /\ PureIdle
    \/ \E cid \in ConnIds : DeleteConnection(cid) /\ PureIdle
    \/ \E cid \in ConnIds : TestConnection(cid) /\ PureIdle
    \/ \E cid \in ConnIds : GetSchema(cid) /\ PureIdle
    \/ \E cid \in ConnIds : ListTables(cid) /\ PureIdle
    \/ \E cid \in ConnIds, table \in TableInputs :
           GetTableInfo(cid, table) /\ PureIdle
    \/ \E cid \in ConnIds, question \in Questions, completion \in Completions,
          inspected \in BOOLEAN, ans \in DbAnswers :
           ExecuteNaturalLanguageQuery(cid, question, completion, inspected, ans) /\ PureIdle
    \/ \E cid \in ConnIds, sql \in RawSqls, ans \in DbAnswers :
           ExecuteRawSql(cid, sql, ans) /\ PureIdle
    \/ \E qid \in QueryIds, ans \in DbAnswers :
           RerunQuery(qid, ans) /\ PureIdle
    \/ \E qid \in QueryIds : GetQueryById(qid) /\ PureIdle
    \/ \E qid \in QueryIds : DeleteQueryFromHistory(qid) /\ PureIdle
    \/ \E filter \in {""} \cup ConnIds, limit \in Limits :
           GetQueryHistory(filter, limit) /\ PureIdle
    \/ \E qid \in QueryIds, ans \in DbAnswers :
           ExportToCsv(qid, ans) /\ PureIdle
    \/ \E qid \in QueryIds, ans \in DbAnswers :
           ExportToJson(qid, ans) /\ PureIdle
    \/ Sever /\ PureIdle
    \/ Restore /\ PureIdle

Init == InitSys /\ IdlePure

Spec == Init /\ [][Next]_vars

--------------------------------------------------------------------------
(* Specification SpecHint: the requests that write the history, with       *)
(* replies whose visualization_hint is and is not one of the five types    *)
(* and with result sets of more than one row.                              *)

NextHint ==
    \/ \E cid \in ConnIds, dbt \in DbTypeInputs :
           CreateConnection(cid, dbt, "db") /\ PureIdle
    \/ \E cid \in ConnIds, question \in Questions, completion \in HintCompletions,
          ans \in HintAnswers :
           ExecuteNaturalLanguageQuery(cid, question, completion, TRUE, ans) /\ PureIdle
    \/ \E cid \in ConnIds, sql \in RawSqls, ans \in HintAnswers :
           ExecuteRawSql(cid, sql, ans) /\ PureIdle
    \/ \E qid \in QueryIds, ans \in HintAnswers :
           RerunQuery(qid, ans) /\ PureIdle
    \/ \E qid \in QueryIds : DeleteQueryFromHistory(qid) /\ PureIdle

SpecHint == Init /\ [][NextHint]_vars

--------------------------------------------------------------------------
(* Properties of the service, checked under Spec.                          *)

\* the statements of a response that went to the database
SentSqls(r) == {r.sent[i].sql : i \in 1..Len(r.sent)}

\* C2: on every path that runs SQL (natural-language query, raw SQL, rerun,
\* CSV export, JSON export) every statement that reached the database
\* passes the SELECT gate, and a statement that fails the gate was not sent:
\* the operation it belonged to sent nothing after its health probe, ended
\* with an error and recorded nothing.
C2_GateBeforeDatabase ==
    /\ \A q \in SentSqls(last) : PrefixIsSelect(Explode(q))
    /\ \A i \in 1..Len(last.tried) :
           ~PrefixIsSelect(Explode(last.tried[i])) =>
               /\ last.tried[i] \notin SentSqls(last)
               /\ SentSqls(last) \subseteq {Select1}
               /\ last.status \in {400, 500}
               /\ last.newQid = 0
               /\ last.rows = -1

\* a natural-language query whose generated statement is a DELETE was
\* refused after the probe, with nothing else sent
C2_Witness ==
    /\ last.op = "nl_query"
    /\ last.tried = << <<"<delete>">> >>
    /\ last.status = 400
    /\ last.detail = "OnlySelect"
    /\ last.ai
    /\ SentSqls(last) = {Select1}

\* C3: registration is all-or-nothing: a create_connection that fails
\* (unsupported dialect, engine cannot be made, probe fails) leaves the
\* registry and the registered objects exactly as they were, the entry
\* already stored under the same id included.
C3_RegistrationAllOrNothing ==
    [][(last'.op = "create_connection" /\ last'.status # 200) =>
           /\ connections' = connections
           /\ objs' = objs]_vars

\* a registration failed on an id that is registered, and the entry is
\* still there and usable
C3_Witness ==
    /\ last.op = "create_connection"
    /\ last.status = 400
    /\ last.detail = "400: Failed to establish database connection"
    /\ connections[last.cid] # 0
    /\ objs[connections[last.cid]].engine = "open"

\* C4: every entry of the registry is a connection whose connect()
\* succeeded and whose engine is still open (not disposed).
C4_RegistryEntriesUsable ==
    \A c \in ConnIds :
        connections[c] # 0 =>
            /\ connections[c] \in 1..Len(objs)
            /\ objs[connections[c]].ready
            /\ objs[connections[c]].engine = "open"

\* an id was registered, removed (its connection closed) and registered
\* again
C4_Witness ==
    \E c \in ConnIds :
        /\ connections[c] = 2
        /\ objs[1].engine = "none"
        /\ objs[2].engine = "open"
        /\ last.op = "create_connection"
        /\ last.cid = c

\* C5: a successful rerun stores a new entry under an id that differs from
\* the original's and was not in use, with the original's generated_sql,
\* original text and connection id; it sends the stored statement and does
\* not call generate_sql; the original entry is present and unchanged.
C5_RerunFreshEntry ==
    [][(last'.op = "rerun" /\ last'.status = 200) =>
           LET old == last'.qid
               new == last'.newQid
           IN  /\ old \in DOMAIN query_history
               /\ new # old
               /\ new \notin DOMAIN query_history
               /\ DOMAIN query_history' = DOMAIN query_history \cup {new}
               /\ query_history'[new].query_id = new
               /\ query_history'[new].generated_sql = query_history[old].generated_sql
               /\ query_history'[new].original_query = query_history[old].original_query
               /\ query_history'[new].connection_id = query_history[old].connection_id
               /\ query_history'[old] = query_history[old]
               /\ ~last'.ai
               /\ last'.tried = <<query_history[old].generated_sql>>
               /\ query_history[old].generated_sql \in SentSqls(last')]_vars

\* a rerun succeeded and both entries are in the history
C5_Witness ==
    /\ last.op = "rerun"
    /\ last.status = 200
    /\ last.qid \in DOMAIN query_history
    /\ last.newQid \in DOMAIN query_history
    /\ last.newQid # last.qid

\* C6: a history entry outlives its connection: delete_connection leaves
\* the history as it is; a rerun of an entry whose connection id is not
\* registered fails with 404, sends nothing and records nothing; a rerun of
\* an entry whose connection id is registered uses the object registered
\* under that id now.
C6_EntryOutlivesConnection ==
    [][/\ last'.op = "delete_connection" => query_history' = query_history
       /\ (last'.op = "rerun" /\ last'.qid \in DOMAIN query_history) =>
              LET k == connections[query_history[last'.qid].connection_id]
              IN  IF k = 0
                  THEN /\ last'.status = 404
                       /\ last'.sent = <<>>
                       /\ query_history' = query_history
                       /\ nextQid' = nextQid
                  ELSE /\ last'.status # 404
                       /\ \A i \in 1..Len(last'.sent) : last'.sent[i].obj = k]_vars

\* the entry is in the history, its connection id is not registered, and a
\* rerun of it was refused with 404
C6_Witness ==
    /\ last.op = "rerun"
    /\ last.status = 404
    /\ last.detail = "Connection not found"
    /\ last.qid \in DOMAIN query_history
    /\ connections[query_history[last.qid].connection_id] = 0

\* C10 (as stated): every operation given a connection id or history id
\* that is absent reports not-found (404), and leaves registry and history
\* unchanged.
C10_AbsentIdNotFound ==
    [][last'.absent =>
           /\ last'.status = 404
           /\ connections' = connections
           /\ query_history' = query_history]_vars

\* the column names of a row
RowKeys(row) == [i \in 1..Len(row) |-> row[i].col]

\* C11 (as stated): a CSV export whose statement returns zero rows fails
\* with an explicit no-data error and emits no content; with at least one
\* row it succeeds and the columns of the CSV are the keys of the first row.
C11_CsvNoDataError ==
    (last.op = "export_csv" /\ last.fetched # <<>>) =>
        LET data == last.fetched[1]
        IN  IF data = <<>>
            THEN /\ last.status # 200
                 /\ last.rows = -1
                 /\ last.body = <<>>
                 /\ last.detail \in {"No data to export", "400: No data to export"}
            ELSE /\ last.status = 200
                 /\ last.rows = Len(data)
                 /\ last.body = RowKeys(data[1])

Matching(filter) ==
    {q \in DOMAIN query_history : filter = "" \/ query_history[q].connection_id = filter}

\* ids is ordered by timestamp descending, without repeats, inside the
\* entries the filter selects, and no selected entry left out is more
\* recent than one in it
MostRecentFirst(ids, filter) ==
    /\ \A i \in 1..Len(ids) : ids[i] \in Matching(filter)
    /\ \A i, j \in 1..Len(ids) :
          i < j => /\ ids[i] # ids[j]
                   /\ query_history[ids[i]].timestamp >= query_history[ids[j]].timestamp
    /\ \A q \in Matching(filter) \ {ids[i] : i \in 1..Len(ids)} :
          \A i \in 1..Len(ids) :
              query_history[ids[i]].timestamp >= query_history[q].timestamp

\* C17 as stated: the history list is ordered by timestamp descending, holds
\* only entries of the filter's connection when a filter is given, and holds
\* at most limit entries, the most recent ones.
C17_HistoryAtMostLimit ==
    last.op = "get_history" =>
        /\ MostRecentFirst(last.body, last.cid)
        /\ Len(last.body) <= last.limit

\* C17 amended: the history list is ordered by timestamp descending, holds
\* only entries of the filter's connection when a filter is given, and holds
\* the most recent ones: the first limit of them (all, if there are fewer)
\* when limit is not negative, and all but the -limit oldest when limit is
\* negative, which is not refused.
C17_HistorySlice ==
    last.op = "get_history" =>
        LET n == Cardinality(Matching(last.cid))
        IN  /\ MostRecentFirst(last.body, last.cid)
            /\ Len(last.body) =
                   IF last.limit >= 0
                   THEN (IF last.limit < n THEN last.limit ELSE n)
                   ELSE (IF n + last.limit > 0 THEN n + last.limit ELSE 0)

\* with two entries of one connection stored, the list for that connection
\* with limit -1 holds one entry
C17_Witness ==
    /\ last.op = "get_history"
    /\ last.limit = -1
    /\ last.cid \in ConnIds
    /\ Cardinality(Matching(last.cid)) = 2
    /\ Len(last.body) = 1

\* C18: a successful execute_raw_sql does not call generate_sql and stores
\* exactly one new history entry, whose original_query is the text
\* "Raw SQL Query", whose generated_sql is the given statement as given and
\* whose connection_id is the given connection id; the entries already
\* stored stay as they are.
C18_RawSqlRecorded ==
    [][(last'.op = "raw_sql" /\ last'.status = 200) =>
           LET new == last'.newQid
           IN  /\ ~last'.ai
               /\ new \notin DOMAIN query_history
               /\ DOMAIN query_history' = DOMAIN query_history \cup {new}
               /\ \A q \in DOMAIN query_history : query_history'[q] = query_history[q]
               /\ query_history'[new].original_query = "Raw SQL Query"
               /\ last'.tried = <<query_history'[new].generated_sql>>
               /\ query_history'[new].generated_sql \in RawSqls
               /\ query_history'[new].generated_sql \in SentSqls(last')
               /\ query_history'[new].connection_id = last'.cid
               /\ connections[last'.cid] # 0]_vars

\* a raw statement with a leading blank ran and is stored with its blank
C18_Witness ==
    /\ last.op = "raw_sql"
    /\ last.status = 200
    /\ ~last.ai
    /\ last.newQid \in DOMAIN query_history
    /\ query_history[last.newQid].generated_sql = <<" ", "<select>">>
    /\ query_history[last.newQid].original_query = "Raw SQL Query"

\* C19: a history entry is never modified: in every step each entry that is
\* in the store before and after has the same field values, and the store
\* changes only by gaining one new entry or by losing one whole entry.
C19_EntriesImmutable ==
    [][/\ \A q \in DOMAIN query_history \cap DOMAIN query_history' :
             query_history'[q] = query_history[q]
       /\ \/ DOMAIN query_history' = DOMAIN query_history
          \/ \E q \in DOMAIN query_history' \ DOMAIN query_history :
                DOMAIN query_history' = DOMAIN query_history \cup {q}
          \/ \E q \in DOMAIN query_history \ DOMAIN query_history' :
                DOMAIN query_history' = DOMAIN query_history \ {q}]_vars

\* the first entry was deleted; the second entry, recorded before that, is
\* in the store with the timestamp it was recorded with
C19_Witness ==
    /\ last.op = "delete_query"
    /\ last.status = 200
    /\ DOMAIN query_history = {2}
    /\ query_history[2].timestamp = 2
    /\ query_history[2].original_query # "Raw SQL Query"

\* C20: every successful natural-language query, raw execution and rerun
\* stores its entry under a new id that no stored entry has, with nothing
\* overwritten, and every stored entry's query_id is the key it is stored
\* under.
C20_FreshIdIsKey ==
    [][/\ \A q \in DOMAIN query_history' : query_history'[q].query_id = q
       /\ (last'.op \in {"nl_query", "raw_sql", "rerun"} /\ last'.status = 200) =>
             /\ last'.newQid \notin DOMAIN query_history
             /\ last'.newQid \in DOMAIN query_history'
             /\ Cardinality(DOMAIN query_history') = Cardinality(DOMAIN query_history) + 1
             /\ \A q \in DOMAIN query_history :
                   q \in DOMAIN query_history' /\ query_history'[q] = query_history[q]]_vars

\* a second execution was recorded after the first entry was deleted: its
\* id is not the deleted one
C20_Witness ==
    /\ last.op \in {"nl_query", "raw_sql"}
    /\ last.status = 200
    /\ last.newQid = 2
    /\ DOMAIN query_history = {2}
    /\ query_history[2].query_id = 2

\* C23: the history store changes only when a natural-language query, a raw
\* execution or a rerun succeeds, which adds one entry, and when
\* delete_query_from_history succeeds, which removes one; such a request that
\* fails (connection absent, probe failed, introspection failed, model call
\* failed, gate refused, database error) leaves the store as it was, and so
\* does every export, successful or not.
C23_HistoryChangesOnlyOnSuccess ==
    [][/\ (last'.op \in {"nl_query", "raw_sql", "rerun"} /\ last'.status # 200)
             => query_history' = query_history
       /\ last'.op \in {"export_csv", "export_json"} => query_history' = query_history
       /\ query_history' # query_history =>
             \/ /\ last'.op \in {"nl_query", "raw_sql", "rerun"}
                /\ last'.status = 200
                /\ last'.newQid \notin DOMAIN query_history
                /\ DOMAIN query_history' = DOMAIN query_history \cup {last'.newQid}
                /\ \A q \in DOMAIN query_history : query_history'[q] = query_history[q]
             \/ /\ last'.op = "delete_query"
                /\ last'.status = 200
                /\ last'.qid \in DOMAIN query_history
                /\ DOMAIN query_history' = DOMAIN query_history \ {last'.qid}
                /\ \A q \in DOMAIN query_history' : query_history'[q] = query_history[q]]_vars

\* a natural-language query failed at introspection, after its probe, with
\* an entry in the store
C23_Witness ==
    /\ last.op = "nl_query"
    /\ last.status = 400
    /\ last.detail = "Failed to get schema info"
    /\ SentSqls(last) = {Select1}
    /\ ~last.ai
    /\ dbUp
    /\ query_history # <<>>

--------------------------------------------------------------------------
(* Claims checked under SpecHint                                           *)

\* C24: every entry of the history store has a visualization type that is
\* one of table, bar_chart, line_chart, pie_chart, kpi: a natural-language
\* query stores the reply's hint when it is one of the five and the result of
\* suggest_visualization on the rows otherwise, a raw execution stores the
\* result of suggest_visualization, and a rerun stores the original's type.
C24_VisualizationTypeClosed ==
    [][/\ \A q \in DOMAIN query_history' : query_history'[q].visualization_type \in VizTypes
       /\ (last'.op = "nl_query" /\ last'.status = 200) =>
             LET data == last'.fetched[1]
             IN  query_history'[last'.newQid].visualization_type =
                     IF last'.hint \in VizTypes THEN last'.hint
                     ELSE SuggestVisualization(data, Columns(data))
       /\ (last'.op = "raw_sql" /\ last'.status = 200) =>
             LET data == last'.fetched[1]
             IN  query_history'[last'.newQid].visualization_type =
                     SuggestVisualization(data, Columns(data))
       /\ (last'.op = "rerun" /\ last'.status = 200) =>
             query_history'[last'.newQid].visualization_type =
                 query_history[last'.qid].visualization_type]_vars

\* a natural-language query whose reply names a type outside the five got
\* two rows of a name and a number: its entry is a pie_chart
C24_Witness ==
    /\ last.op = "nl_query"
    /\ last.status = 200
    /\ last.hint = "scatter"
    /\ last.rows = 2
    /\ last.newQid \in DOMAIN query_history
    /\ query_history[last.newQid].visualization_type = "pie_chart"

--------------------------------------------------------------------------
(* Claims checked under SpecReg                                            *)

\* C13: a successful add_connection(id) followed by remove_connection(id)
\* leaves id out of the registry and out of list_connections(); a
\* get_connection(id) that follows a remove_connection(id) returns None and
\* a list_connections() that follows it does not hold id.
C13_RegisterRemoveGet ==
    [][/\ (/\ output.op = "add_connection" /\ output.ok
           /\ output'.op = "remove_connection" /\ output'.cid = output.cid)
          => /\ connections[output.cid] # 0
             /\ connections'[output.cid] = 0
             /\ output.cid \notin {c \in ConnIds : connections'[c] # 0}
       /\ (/\ output.op = "remove_connection"
           /\ output'.op = "get_connection" /\ output'.cid = output.cid)
          => output'.val = 0
       /\ (output.op = "remove_connection" /\ output'.op = "list_connections")
          => output.cid \notin output'.val]_vars

\* a get_connection answers None for an id whose connection was registered
\* and removed (its closed object is still there), with another id registered
C13_Witness ==
    /\ pc = "reg"
    /\ output.op = "get_connection"
    /\ output.val = 0
    /\ \E i \in 1..Len(objs) :
          /\ objs[i].engine = "none"
          /\ \A c \in ConnIds : connections[c] # i
    /\ \E c \in ConnIds : connections[c] # 0

\* C14: remove_connection(id) closes the connection stored under id and
\* deletes that entry, leaving every other entry and every other connection
\* as it was; on an id that is not registered it returns without error and
\* changes nothing.
C14_RemoveIdempotent ==
    [][output'.op = "remove_connection" =>
          LET c == output'.cid
              k == connections[c]
          IN  /\ ~output'.raised
              /\ IF k # 0
                 THEN /\ objs'[k].engine = "none"
                      /\ connections'[c] = 0
                      /\ \A d \in ConnIds \ {c} : connections'[d] = connections[d]
                      /\ Len(objs') = Len(objs)
                      /\ \A i \in 1..Len(objs) : i # k => objs'[i] = objs[i]
                 ELSE /\ connections' = connections
                      /\ objs' = objs]_vars

\* remove_connection was called on an id that is not registered while
\* another id holds an open connection
C14_Witness ==
    /\ pc = "reg"
    /\ output.op = "remove_connection"
    /\ connections[output.cid] = 0
    /\ \E d \in ConnIds \ {output.cid} :
          connections[d] # 0 /\ objs[connections[d]].engine = "open"

\* C15: get_connection, list_connections and test_connection leave the
\* registry and every stored connection unchanged, also when the probe fails.
C15_ReadsLeaveRegistry ==
    [][output'.op \in {"get_connection", "list_connections", "test_connection"}
          => /\ connections' = connections
             /\ objs' = objs]_vars

\* a probe failed and its connection is still registered
C15_Witness ==
    /\ pc = "reg"
    /\ output.op = "test_connection"
    /\ ~output.ok
    /\ connections[output.cid] # 0
    /\ objs[connections[output.cid]].engine = "open"

\* no id of the registry leads to the connection i
Unreachable(conns, i) == \A c \in ConnIds : conns[c] # i

\* C22: a successful add_connection on an id that is registered stores the
\* new connection under the id and does not close the old one: the old
\* connection is as it was, its engine open, and no id leads to it; no later
\* call touches a connection that no id leads to, so a remove_connection of
\* the id closes the new connection only.
C22_OverwriteLeavesOldOpen ==
    [][/\ (/\ output'.op = "add_connection" /\ output'.ok
           /\ connections[output'.cid] # 0) =>
             LET old == connections[output'.cid]
             IN  /\ Len(objs') = Len(objs) + 1
                 /\ connections'[output'.cid] = Len(objs')
                 /\ objs'[Len(objs')].engine = "open"
                 /\ objs'[old] = objs[old]
                 /\ objs'[old].engine = "open"
                 /\ Unreachable(connections', old)
       /\ \A i \in 1..Len(objs) :
             Unreachable(connections, i) =>
                 /\ objs'[i] = objs[i]
                 /\ Unreachable(connections', i)
       /\ (output'.op = "remove_connection" /\ connections[output'.cid] # 0) =>
             /\ objs'[connections[output'.cid]].engine = "none"
             /\ \A i \in 1..Len(objs) :
                   i # connections[output'.cid] => objs'[i] = objs[i]]_vars

\* an id was registered twice and then removed: its first connection is
\* open, its second one is closed, and the registry is empty
C22_Witness ==
    /\ pc = "reg"
    /\ output.op = "remove_connection"
    /\ Len(objs) = 2
    /\ objs[1].engine = "open"
    /\ objs[2].engine = "none"
    /\ \A c \in ConnIds : connections[c] = 0

--------------------------------------------------------------------------
(* Claims checked under SpecViz                                            *)

\* some column name contains date, time, created or updated, in any case
HasTimeColumn(columns) ==
    \E i \in 1..Len(columns) : \E w \in TimeWords : Contains(Lower(columns[i]), w)

\* a value that is a number: an integer, a float or a decimal
NumericValue(kind) == kind \in {"int", "float", "decimal"}

\* one of the first three rows holds a number
NumberInFirstThree(data) ==
    \E r \in 1..Len(data) : r <= 3 /\ \E i \in 1..Len(data[r]) : NumericValue(data[r][i].kind)

\* the first matching rule of the list, in its order
FirstMatchingRule(data, columns) ==
    IF data = <<>> \/ columns = <<>> THEN "table"
    ELSE IF Len(data) = 1 /\ Len(columns) = 1 THEN "kpi"
    ELSE IF HasTimeColumn(columns) /\ Len(data) > 1 THEN "line_chart"
    ELSE IF Len(columns) = 2 /\ Len(data) <= 20 /\ NumberInFirstThree(data)
         THEN (IF Len(data) > 5 THEN "bar_chart" ELSE "pie_chart")
    ELSE "table"

\* C21: suggest_visualization returns what the first matching rule of the
\* ordered list gives: table for no rows or no columns; kpi for one row and
\* one column; line_chart for a temporal column name and more than one row;
\* for two columns, at most 20 rows and a number in the first three rows,
\* bar_chart above 5 rows and pie_chart otherwise; table in every other
\* case.
C21_FirstMatchingRule ==
    output.op = "suggest" => output.viz = FirstMatchingRule(input[1], input[2])

====
